---- MODULE Spec2Model ----
(***************************************************************************)
(* A model of geohash-int-rs: the Morton bit interleaver (src/bits.rs) and *)
(* the coordinate / geocode / area operations (src/geohash.rs).            *)
(*                                                                         *)
(* Machine words (u32, u64) are modelled as the set of positions of their  *)
(* 1 bits, so that masks, shifts, additions with carry and subtractions    *)
(* with borrow are computed bit for bit at the width of the Rust type.     *)
(* f32 values are modelled as normalised dyadic numbers m * 2^e with a     *)
(* 24 bit significand, and every f32 operation rounds to nearest, ties to  *)
(* even, as IEEE 754 binary32 does.                                        *)
(***************************************************************************)
EXTENDS Integers, FiniteSets, Sequences, TLC

VARIABLES build, pc, input, coord, g, area, last, steps

vars == <<build, pc, input, coord, g, area, last, steps>>

(***************************************************************************)
(* Widths of the Rust integer types used by the program.                   *)
(***************************************************************************)
W8 == 8
W32 == 32
W64 == 64
\* An f32 carries a 24 bit significand.
F32_MANT == 24

(***************************************************************************)
(* Bounds of the model.                                                    *)
(***************************************************************************)
\* The number of operations applied to a geocode after it is encoded.
MaxSteps == 2

(***************************************************************************)
(* Words as sets of bit positions.                                         *)
(***************************************************************************)
AllOnes(w) == 0 .. w - 1

\* x << k at width w: bits shifted past the top are dropped.
Shl(x, k, w) == {i + k : i \in {j \in x : j + k < w}}

\* x >> k.
Shr(x, k) == {i - k : i \in {j \in x : j >= k}}

\* Symmetric difference: the bitwise exclusive or.
Xor(a, b) == (a \ b) \cup (b \ a)

\* One doubling step of the carry computation below: gp.g are the positions
\* known to send a carry out, gp.p the positions that end a span of k
\* positions all passing a carry on.
CarryStep(gp, k, w) ==
    [g |-> gp.g \cup (gp.p \cap Shl(gp.g, k, w)), p |-> gp.p \cap Shl(gp.p, k, w)]

\* The positions that send a carry (or a borrow) to the next one, from the
\* positions gen that generate one and the positions prop that pass one on:
\* a carry leaves position i when some j <= i generates it and every position
\* in j+1..i passes it on.  Computed by doubling the span, for widths to 64.
Carries(gen, prop, w) ==
    CarryStep(CarryStep(CarryStep(CarryStep(CarryStep(CarryStep(
        [g |-> gen, p |-> prop], 1, w), 2, w), 4, w), 8, w), 16, w), 32, w).g

\* a + b at width w, wrapped, with the overflow the checked build panics on.
Add(a, b, w) ==
    LET c == Carries(a \cap b, Xor(a, b), w)
    IN [val |-> Xor(Xor(a, b), Shl(c, 1, w)), ovf |-> (w - 1) \in c]

\* a - b at width w, wrapped, with the underflow the checked build panics on.
Sub(a, b, w) ==
    LET c == Carries(b \ a, AllOnes(w) \ Xor(a, b), w)
    IN [val |-> Xor(Xor(a, b), Shl(c, 1, w)), ovf |-> (w - 1) \in c]

\* The bits of a small natural number, and the number a small word stands for.
BitsOf(n) == {i \in 0 .. 29 : (n \div (2 ^ i)) % 2 = 1}

RECURSIVE Val(_)
Val(x) == IF x = {} THEN 0
          ELSE LET i == CHOOSE j \in x : TRUE IN (2 ^ i) + Val(x \ {i})

MaxBit(x) == CHOOSE i \in x : \A j \in x : j <= i

(***************************************************************************)
(* src/bits.rs                                                             *)
(***************************************************************************)
\* 0x0000FFFF0000FFFF, 0x00FF00FF00FF00FF, 0x0F0F0F0F0F0F0F0F,
\* 0x3333333333333333, 0x5555555555555555 and 0x00000000FFFFFFFF.
MASK16 == {i \in 0 .. W64 - 1 : (i \div 16) % 2 = 0}
MASK8 == {i \in 0 .. W64 - 1 : (i \div 8) % 2 = 0}
MASK4 == {i \in 0 .. W64 - 1 : (i \div 4) % 2 = 0}
MASK2 == {i \in 0 .. W64 - 1 : (i \div 2) % 2 = 0}
MASK1 == {i \in 0 .. W64 - 1 : i % 2 = 0}
MASK32 == {i \in 0 .. W64 - 1 : i < 32}

spread(x) ==
    LET x1 == (x \cup Shl(x, 16, W64)) \cap MASK16
        x2 == (x1 \cup Shl(x1, 8, W64)) \cap MASK8
        x3 == (x2 \cup Shl(x2, 4, W64)) \cap MASK4
        x4 == (x3 \cup Shl(x3, 2, W64)) \cap MASK2
        x5 == (x4 \cup Shl(x4, 1, W64)) \cap MASK1
    IN x5

interleave64(lat, lng) == Shl(spread(lng), 1, W64) \cup spread(lat)

squash(x) ==
    LET x0 == x \cap MASK1
        x1 == (x0 \cup Shr(x0, 1)) \cap MASK2
        x2 == (x1 \cup Shr(x1, 2)) \cap MASK4
        x3 == (x2 \cup Shr(x2, 4)) \cap MASK8
        x4 == (x3 \cup Shr(x3, 8)) \cap MASK16
        x5 == (x4 \cup Shr(x4, 16)) \cap MASK32
    IN {i \in x5 : i < W32}

\* deinterleave64 with the pair in the order of interleave64's arguments.
deinterleave64_latfirst(hash) == <<squash(hash), squash(Shr(hash, 1))>>

\* The pair is (lng, lat): the odd bits first, the even bits second.
deinterleave64(hash) == <<squash(Shr(hash, 1)), squash(hash)>>

(***************************************************************************)
(* f32 arithmetic.  A value is [m |-> significand, e |-> exponent] and     *)
(* stands for m * 2^e, with 2^23 <= |m| < 2^24, or m = 0 and e = 0.        *)
(***************************************************************************)
Abs(n) == IF n < 0 THEN -n ELSE n

Sgn(n) == IF n < 0 THEN -1 ELSE 1

\* The number of bits of n, for 0 <= n < 2^30.
BitLen(n) == CHOOSE k \in 0 .. 30 : n < 2 ^ k /\ (k = 0 \/ n >= 2 ^ (k - 1))

FZero == [m |-> 0, e |-> 0]

\* m * 2^e rounded to the nearest f32, ties to even (|m| < 2^30).
RoundF32(m, e) ==
    LET M == Abs(m)
        L == BitLen(M)
        k == L - F32_MANT
        q == M \div (2 ^ k)
        r == M % (2 ^ k)
        h == 2 ^ (k - 1)
        up == r > h \/ (r = h /\ q % 2 = 1)
        q2 == IF up THEN q + 1 ELSE q
    IN IF M = 0 THEN FZero
       ELSE IF L <= F32_MANT
            THEN [m |-> m * (2 ^ (F32_MANT - L)), e |-> e - (F32_MANT - L)]
       ELSE IF q2 = 2 ^ F32_MANT
            THEN [m |-> Sgn(m) * (2 ^ (F32_MANT - 1)), e |-> e + k + 1]
       ELSE [m |-> Sgn(m) * q2, e |-> e + k]

FNeg(a) == [m |-> -a.m, e |-> a.e]

\* a + b in f32.  The operand of smaller exponent is aligned to five bits
\* below the other; what is shifted out only marks the sum as inexact.
FAdd(a, b) ==
    LET hi == IF a.e >= b.e THEN a ELSE b
        lo == IF a.e >= b.e THEN b ELSE a
        d == hi.e - lo.e
        k == d - 4
        far == k >= F32_MANT
        su == IF far THEN 0 ELSE Abs(lo.m) \div (2 ^ k)
        st == IF far \/ Abs(lo.m) % (2 ^ k) /= 0 THEN 1 ELSE 0
    IN IF a.m = 0 THEN b
       ELSE IF b.m = 0 THEN a
       ELSE IF d <= 4 THEN RoundF32(hi.m * (2 ^ d) + lo.m, lo.e)
       ELSE RoundF32(hi.m * 32 + Sgn(lo.m) * (2 * su + st), hi.e - 5)

FSub(a, b) == FAdd(a, FNeg(b))

\* The sign of a rounded difference is the sign of the exact difference.
FLt(a, b) == FSub(a, b).m < 0

FLe(a, b) == FSub(a, b).m <= 0

\* n = c * 2^t with c odd (n > 0).
TrailingZeros(n) == CHOOSE t \in 0 .. 30 : n % (2 ^ t) = 0 /\ (n \div (2 ^ t)) % 2 = 1

\* a * b in f32, for a multiplier whose odd part is below 64 (the program
\* multiplies by 180.0, by 360.0 and by powers of two).
FMul(a, b) ==
    LET t == TrailingZeros(Abs(b.m))
        c == b.m \div (2 ^ t)
    IN IF a.m = 0 \/ b.m = 0 THEN FZero
       ELSE RoundF32(a.m * c, a.e + b.e + t)

\* n more quotient bits of the long division by B, from quotient q and
\* remainder r.
RECURSIVE LongDiv(_, _, _, _)
LongDiv(q, r, B, n) ==
    IF n = 0 THEN <<q, r>>
    ELSE LongDiv(2 * q + (IF 2 * r >= B THEN 1 ELSE 0),
                 IF 2 * r >= B THEN 2 * r - B ELSE 2 * r, B, n - 1)

\* a / b in f32 (b /= 0): 26 quotient bits below the point and the rest as an
\* inexact mark, then one rounding.
FDiv(a, b) ==
    LET A == Abs(a.m)
        B == Abs(b.m)
        qr == LongDiv(A \div B, A % B, B, 26)
        st == IF qr[2] /= 0 THEN 1 ELSE 0
    IN IF a.m = 0 THEN FZero
       ELSE RoundF32(Sgn(a.m) * Sgn(b.m) * (2 * qr[1] + st), a.e - b.e - 27)

\* An integer as f32 (|n| < 2^30).
FInt(n) == RoundF32(n, 0)

\* `x as f32` for an unsigned word x.
WordToF32(x) ==
    LET top == MaxBit(x)
        sh == top - (F32_MANT - 1)
        q == Val({i - sh : i \in {j \in x : j >= sh}})
        gd == IF (sh - 1) \in x THEN 1 ELSE 0
        st == IF \E i \in x : i < sh - 1 THEN 1 ELSE 0
    IN IF x = {} THEN FZero
       ELSE IF top < F32_MANT THEN RoundF32(Val(x), 0)
       ELSE RoundF32(4 * q + 2 * gd + st, sh - 2)

\* `(a as f64) * ((1u64 << p) as f64)` is exact in f64; `as u32` truncates
\* toward zero and saturates at the ends of the u32 range.
ScaleToU32(a, p) ==
    LET sh == a.e + p
        up == {i + sh : i \in BitsOf(a.m)}
    IN IF a.m <= 0 THEN {}
       ELSE IF sh >= 0
            THEN (IF \E i \in up : i >= W32 THEN AllOnes(W32) ELSE up)
       ELSE IF -sh >= 30 THEN {}
       ELSE BitsOf(a.m \div (2 ^ (-sh)))

(***************************************************************************)
(* src/geohash.rs: constants, Coord, Area                                  *)
(***************************************************************************)
LAT_MIN == FInt(-90)
LAT_MAX == FInt(90)
LNG_MIN == FInt(-180)
LNG_MAX == FInt(180)

LAT_RNG == [start |-> LAT_MIN, end |-> LAT_MAX]
LNG_RNG == [start |-> LNG_MIN, end |-> LNG_MAX]

Directions == {"North", "East", "South", "West",
               "NorthEast", "SouthEast", "SouthWest", "NorthWest"}

\* Range::contains with the upper end included.
RangeContains_closed(r, x) == FLe(r.start, x) /\ FLe(x, r.end)

\* Range<f32>::contains: start <= x && x < end.
RangeContains(r, x) == FLe(r.start, x) /\ FLt(x, r.end)

\* RangeExtension::length.
length(r) == FSub(r.end, r.start)

\* Coord::new panics on a latitude or longitude outside its range; the panic
\* is the failure the specification names InvalidCoordinate.
Coord_new(latitude, longitude) ==
    IF ~RangeContains(LAT_RNG, latitude) \/ ~RangeContains(LNG_RNG, longitude)
    THEN [ok |-> FALSE, err |-> "InvalidCoordinate"]
    ELSE [ok |-> TRUE, val |-> [latitude |-> latitude, longitude |-> longitude]]

\* Area::contains.
contains(a, c) ==
    /\ RangeContains(a.lat_range, c.latitude)
    /\ RangeContains(a.lng_range, c.longitude)

(***************************************************************************)
(* src/geohash.rs: GeoBits                                                 *)
(***************************************************************************)
LAT_BITS == {i \in 0 .. W64 - 1 : i % 2 = 0}
LNG_BITS == {i \in 0 .. W64 - 1 : i % 2 = 1}

\* GeoBits::from panics on a precision outside 1..=32; the panic is the
\* failure the specification names InvalidPrecision.
GeoBits_from(c, precision) ==
    LET lat == FDiv(FSub(c.latitude, LAT_MIN), length(LAT_RNG))
        lng == FDiv(FSub(c.longitude, LNG_MIN), length(LNG_RNG))
        lat32 == ScaleToU32(lat, precision)
        lng32 == ScaleToU32(lng, precision)
    IN IF precision = 0 \/ precision > 32
       THEN [ok |-> FALSE, err |-> "InvalidPrecision"]
       ELSE [ok |-> TRUE,
             val |-> [bits |-> interleave64(lat32, lng32), precision |-> precision]]

\* `64 - self.precision * 2` in u8.
NumUnusedBits(precision) ==
    LET twice == precision * 2
        t == twice % (2 ^ W8)
    IN [val |-> (64 - t) % (2 ^ W8), ovf |-> twice >= 2 ^ W8 \/ t > 64]

\* x >> n for a u64 x: an amount of 64 or more is an overflow; the unchecked
\* build shifts by the amount's low six bits.
ShrAmt(x, n) == [val |-> Shr(x, n % W64), ovf |-> n >= W64]

\* move_x without `lng |= tmp` before the subtraction: the borrow runs through
\* the latitude positions.
move_x_noor(self, left) ==
    LET lng == self.bits \cap LNG_BITS
        lat == self.bits \cap LAT_BITS
        nub == NumUnusedBits(self.precision)
        tmp == ShrAmt(LAT_BITS, nub.val)
        unit == Add(tmp.val, {0}, W64)
        moved == IF left THEN Sub(lng, unit.val, W64)
                 ELSE Add(lng, unit.val, W64)
        mask == ShrAmt(LNG_BITS, nub.val)
    IN [bits |-> (moved.val \cap mask.val) \cup lat,
        precision |-> self.precision,
        ovf |-> nub.ovf \/ tmp.ovf \/ unit.ovf \/ moved.ovf \/ mask.ovf]

move_x(self, left) ==
    LET lng == self.bits \cap LNG_BITS
        lat == self.bits \cap LAT_BITS
        nub == NumUnusedBits(self.precision)
        tmp == ShrAmt(LAT_BITS, nub.val)
        unit == Add(tmp.val, {0}, W64)
        moved == IF left THEN Sub(lng \cup tmp.val, unit.val, W64)
                 ELSE Add(lng, unit.val, W64)
        mask == ShrAmt(LNG_BITS, nub.val)
    IN [bits |-> (moved.val \cap mask.val) \cup lat,
        precision |-> self.precision,
        ovf |-> nub.ovf \/ tmp.ovf \/ unit.ovf \/ moved.ovf \/ mask.ovf]

move_y(self, bottom) ==
    LET lng == self.bits \cap LNG_BITS
        lat == self.bits \cap LAT_BITS
        nub == NumUnusedBits(self.precision)
        tmp == ShrAmt(LNG_BITS, nub.val)
        unit == Add(tmp.val, {0}, W64)
        moved == IF bottom THEN Sub(lat \cup tmp.val, unit.val, W64)
                 ELSE Add(lat, unit.val, W64)
        mask == ShrAmt(LAT_BITS, nub.val)
    IN [bits |-> lng \cup (moved.val \cap mask.val),
        precision |-> self.precision,
        ovf |-> nub.ovf \/ tmp.ovf \/ unit.ovf \/ moved.ovf \/ mask.ovf]

\* The chained moves with the second applied to the geocode as it was before
\* the first, so that the first move is lost.
MoveYX_lost(self, bottom, left) ==
    LET y == move_y(self, bottom)
        x == move_x(self, left)
    IN [bits |-> x.bits, precision |-> x.precision, ovf |-> y.ovf \/ x.ovf]

\* bits.move_y(b).move_x(l): the second move works on the first one's result.
MoveYX(self, bottom, left) ==
    LET y == move_y(self, bottom)
        x == move_x(y, left)
    IN [bits |-> x.bits, precision |-> x.precision, ovf |-> y.ovf \/ x.ovf]

get_neighbor(self, direction) ==
    CASE direction = "North" -> move_y(self, FALSE)
      [] direction = "East" -> move_x(self, FALSE)
      [] direction = "South" -> move_y(self, TRUE)
      [] direction = "West" -> move_x(self, TRUE)
      [] direction = "NorthEast" -> MoveYX(self, FALSE, FALSE)
      [] direction = "SouthEast" -> MoveYX(self, TRUE, FALSE)
      [] direction = "SouthWest" -> MoveYX(self, TRUE, TRUE)
      [] direction = "NorthWest" -> MoveYX(self, FALSE, TRUE)

Code(r) == [bits |-> r.bits, precision |-> r.precision]

get_neighbors(self) ==
    LET each == [d \in Directions |-> get_neighbor(self, d)]
    IN [val |-> [d \in Directions |-> Code(each[d])],
        ovf |-> \E d \in Directions : each[d].ovf]

\* GeoBits { bits: (self.bits << 2) + k, precision: self.precision + 1 }.
NextChild(self, k) ==
    LET sum == Add(Shl(self.bits, 2, W64), BitsOf(k), W64)
        prec == self.precision + 1
    IN [bits |-> sum.val,
        precision |-> prec % (2 ^ W8),
        ovf |-> sum.ovf \/ prec >= 2 ^ W8]

next_leftbottom(self) == NextChild(self, 0)

next_rightbottom(self) == NextChild(self, 2)

next_lefttop(self) == NextChild(self, 1)

next_righttop(self) == NextChild(self, 3)

\* `1u32 << self.precision`: an amount of 32 or more is an overflow; the
\* unchecked build shifts by the amount's low five bits.
FloatScale(precision) ==
    [val |-> WordToF32(Shl({0}, precision % W32, W32)), ovf |-> precision >= W32]

\* One axis of Into<Area>: MIN + (i as f32 / float_scale) * scale, and the
\* same for i + 1 (a u32 addition).
AxisRange(i, fs, min, scale) ==
    LET next == Add(i, {0}, W32)
    IN [start |-> FAdd(min, FMul(FDiv(WordToF32(i), fs), scale)),
        end |-> FAdd(min, FMul(FDiv(WordToF32(next.val), fs), scale)),
        ovf |-> next.ovf]

into_Area(self) ==
    LET ll == deinterleave64(self.bits)
        lng == ll[1]
        lat == ll[2]
        lat_scale == FInt(180)
        lng_scale == FInt(360)
        float_scale == FloatScale(self.precision)
        lat_range == AxisRange(lat, float_scale.val, LAT_MIN, lat_scale)
        lng_range == AxisRange(lng, float_scale.val, LNG_MIN, lng_scale)
    IN [lat_range |-> [start |-> lat_range.start, end |-> lat_range.end],
        lng_range |-> [start |-> lng_range.start, end |-> lng_range.end],
        ovf |-> float_scale.ovf \/ lat_range.ovf \/ lng_range.ovf]

(***************************************************************************)
(* Inputs.                                                                 *)
(***************************************************************************)
F(m, e) == [m |-> m, e |-> e]

\* (latitude, longitude) pairs of f32 values inside the declared ranges:
\* (25.006, 121.46), (0, 0), (-90, -180), (89.99999237, 179.99998474: the
\* largest f32 below each upper end) and (89.9999, 179.9999).
ValidCoords ==
    { <<F(13110346, -19), F(15920005, -17)>>,
      <<FZero, FZero>>,
      <<F(-11796480, -17), F(-11796480, -16)>>,
      <<F(11796479, -17), F(11796479, -16)>>,
      <<F(11796467, -17), F(11796473, -16)>> }

\* Pairs outside the ranges: latitude 90 and -90.0001, longitude 180 and
\* -180.0001.
InvalidCoords ==
    { <<F(11796480, -17), FZero>>,
      <<F(-11796493, -17), FZero>>,
      <<FZero, F(11796480, -16)>>,
      <<FZero, F(-11796487, -16)>> }

\* Requested precisions: 0 and 33 (one on each side of the valid range), the
\* ends 1 and 32 of the range, 15 (the precision of the program's tests), 25
\* (one more than the bits of an f32 significand), 2 and 31.
Precisions == {0, 1, 2, 15, 25, 31, 32, 33}

\* Overflow checks on (a debug build: an overflow panics) or off (a release
\* build: an overflow wraps).
Builds == {"debug", "release"}

None == "none"

NoOp == [op |-> "none", arg |-> None, ovf |-> FALSE, out |-> None]

(***************************************************************************)
(* The state machine: construct a Coord, encode it, then apply neighbour,  *)
(* subdivision and decode operations to the geocode in hand.               *)
(***************************************************************************)
Init ==
    /\ build \in Builds
    /\ pc = "start"
    /\ input \in [latlng : ValidCoords \cup InvalidCoords, precision : Precisions]
    /\ coord = None
    /\ g = None
    /\ area = None
    /\ last = NoOp
    /\ steps = 0

\* Coord::new(latitude, longitude).
CoordNew ==
    /\ pc = "start"
    /\ LET r == Coord_new(input.latlng[1], input.latlng[2])
       IN /\ pc' = IF r.ok THEN "coord" ELSE "panic"
          /\ coord' = IF r.ok THEN r.val ELSE None
          /\ last' = [op |-> "Coord::new", arg |-> None, ovf |-> FALSE,
                      out |-> IF r.ok THEN "ok" ELSE r.err]
    /\ UNCHANGED <<build, input, g, area, steps>>

\* GeoBits::from(&coord, precision).
Encode ==
    /\ pc = "coord"
    /\ LET r == GeoBits_from(coord, input.precision)
       IN /\ pc' = IF r.ok THEN "code" ELSE "panic"
          /\ g' = IF r.ok THEN r.val ELSE None
          /\ last' = [op |-> "GeoBits::from", arg |-> None, ovf |-> FALSE,
                      out |-> IF r.ok THEN "ok" ELSE r.err]
    /\ UNCHANGED <<build, input, coord, area, steps>>

\* An operation that returns a geocode: with overflow checks on, an overflow
\* inside it panics and nothing is returned.
Apply(name, res) ==
    /\ pc = "code"
    /\ steps < MaxSteps
    /\ steps' = steps + 1
    /\ \E r \in {res} :
          /\ last' = [op |-> name, arg |-> g, ovf |-> r.ovf, out |-> None]
          /\ IF r.ovf /\ build = "debug"
             THEN pc' = "panic" /\ g' = g
             ELSE pc' = "code" /\ g' = Code(r)
    /\ UNCHANGED <<build, input, coord, area>>

GetNeighbor == \E d \in Directions : Apply(d, get_neighbor(g, d))

NextLeftBottom == Apply("next_leftbottom", next_leftbottom(g))

NextRightBottom == Apply("next_rightbottom", next_rightbottom(g))

NextLeftTop == Apply("next_lefttop", next_lefttop(g))

NextRightTop == Apply("next_righttop", next_righttop(g))

\* get_neighbors(&self): the geocode in hand stays; the map is the result.
GetNeighbors ==
    /\ pc = "code"
    /\ steps < MaxSteps
    /\ steps' = steps + 1
    /\ \E r \in {get_neighbors(g)} :
          /\ last' = [op |-> "get_neighbors", arg |-> g, ovf |-> r.ovf,
                      out |-> IF r.ovf /\ build = "debug" THEN None ELSE r.val]
          /\ pc' = IF r.ovf /\ build = "debug" THEN "panic" ELSE "code"
    /\ UNCHANGED <<build, input, coord, g, area>>

\* Into<Area>::into(self): the geocode is consumed, the area is the result.
Decode ==
    /\ pc = "code"
    /\ \E r \in {into_Area(g)} :
          /\ last' = [op |-> "into", arg |-> g, ovf |-> r.ovf, out |-> None]
          /\ IF r.ovf /\ build = "debug"
             THEN pc' = "panic" /\ area' = None
             ELSE /\ pc' = "area"
                  /\ area' = [lat_range |-> r.lat_range, lng_range |-> r.lng_range]
    /\ UNCHANGED <<build, input, coord, g, steps>>

Next ==
    \/ CoordNew
    \/ Encode
    \/ GetNeighbor
    \/ NextLeftBottom
    \/ NextRightBottom
    \/ NextLeftTop
    \/ NextRightTop
    \/ GetNeighbors
    \/ Decode

Spec == Init /\ [][Next]_vars

(***************************************************************************)
(* The neighbour moves alone, after construction and encoding.             *)
(***************************************************************************)
NextMoves ==
    \/ CoordNew
    \/ Encode
    \/ GetNeighbor

SpecMoves == Init /\ [][NextMoves]_vars

(***************************************************************************)
(* The two constructions alone: Coord::new and GeoBits::from.              *)
(***************************************************************************)
NextConstruct ==
    \/ CoordNew
    \/ Encode

SpecConstruct == Init /\ [][NextConstruct]_vars

(***************************************************************************)
(* The bit interleaver alone, on pairs of u32 values.                      *)
(***************************************************************************)
\* u32 values with any of the bits 0, 1, 15, 16 and 31 set.
U32Samples == SUBSET {0, 1, 15, 16, 31}

InitBits ==
    /\ build \in Builds
    /\ pc = "bits"
    /\ input \in [a : U32Samples, b : U32Samples]
    /\ coord = None
    /\ g = None
    /\ area = None
    /\ last = NoOp
    /\ steps = 0

\* interleave64(a, b).
Interleave ==
    /\ pc = "bits"
    /\ pc' = "interleaved"
    /\ last' = [op |-> "interleave64", arg |-> <<input.a, input.b>>, ovf |-> FALSE,
                out |-> interleave64(input.a, input.b)]
    /\ UNCHANGED <<build, input, coord, g, area, steps>>

\* deinterleave64 of the value interleave64 returned.
Deinterleave ==
    /\ pc = "interleaved"
    /\ pc' = "deinterleaved"
    /\ last' = [op |-> "deinterleave64", arg |-> last.out, ovf |-> FALSE,
                out |-> deinterleave64(last.out)]
    /\ UNCHANGED <<build, input, coord, g, area, steps>>

NextBits ==
    \/ Interleave
    \/ Deinterleave

SpecBits == InitBits /\ [][NextBits]_vars

(***************************************************************************)
(* Notions the claims are stated in.                                       *)
(***************************************************************************)
ValidPrecision(p) == p \in 1 .. 32

\* The GeoCode invariant of the data model: a precision in 1..=32 and no bit
\* at or above position 2 * precision.
ValidCode(c) == ValidPrecision(c.precision) /\ \A i \in c.bits : i < 2 * c.precision

\* The cell indices of a geocode, as deinterleave64 recovers them.
LngIdx(c) == deinterleave64(c.bits)[1]
LatIdx(c) == deinterleave64(c.bits)[2]

\* An index strictly between 0 and 2^p - 1.
Interior(idx, p) == idx /= {} /\ idx /= 0 .. p - 1 /\ idx \subseteq 0 .. p - 1

\* The outcome of an operation in the build at hand (a geocode, or a panic on
\* an overflow with the checks on), and of a further neighbour move applied
\* to that outcome.
Panic == [panic |-> TRUE]

Outcome(r) == IF r.ovf /\ build = "debug" THEN Panic ELSE Code(r)

Then(o, d) == IF o = Panic THEN Panic ELSE Outcome(get_neighbor(o, d))

\* The geocode GeoBits::from returned for the input.
Encoded == GeoBits_from(coord, input.precision).val

\* x >= n and x < n for an f32 x and an integer n, by exact integer
\* comparison.
GeInt(x, n) == IF x.e >= 0 THEN x.m * (2 ^ x.e) >= n ELSE x.m >= n * (2 ^ (-x.e))

LtInt(x, n) == ~GeInt(x, n)

(***************************************************************************)
(* C1. Round-trip containment: decoding the geocode GeoBits::from returned *)
(* for a valid coordinate and a precision in 1..=32 completes and yields   *)
(* an area whose two half-open ranges contain the coordinate.              *)
(***************************************************************************)
C1_RoundTrip ==
    (last.op = "into" /\ steps = 0) => (pc = "area" /\ contains(area, coord))

(***************************************************************************)
(* C2. deinterleave64(interleave64(a, b)) returns the pair with its        *)
(* components exchanged, (b, a): the first argument of interleave64 comes  *)
(* back as the second component and the second as the first.               *)
(***************************************************************************)
C2_InverseSwapped ==
    pc = "deinterleaved" => last.out = <<input.b, input.a>>

\* C2 as first stated: the pair comes back position for position, (a, b).
C2_InversePositional ==
    pc = "deinterleaved" => last.out = <<input.a, input.b>>

C2_Witness ==
    /\ pc = "deinterleaved"
    /\ input.a /= input.b
    /\ input.a = {0, 31}
    /\ last.out = <<input.b, input.a>>

(***************************************************************************)
(* C3. Every geocode in hand, after encoding and after any sequence of     *)
(* neighbour and subdivision operations, has a precision in 1..=32 and no  *)
(* bit set at or above position 2 * precision.                             *)
(***************************************************************************)
C3_ValidCode == pc = "code" => ValidCode(g)

(***************************************************************************)
(* C4. Every operation applied after construction (decode, get_neighbor,   *)
(* get_neighbors, the four subdivisions) returns a value, and no integer   *)
(* addition, subtraction or shift inside it overflows.                     *)
(***************************************************************************)
C4_Total ==
    last.op \notin {"none", "Coord::new", "GeoBits::from"} =>
        (~last.ovf /\ pc /= "panic")

(***************************************************************************)
(* C5. A cardinal get_neighbor on a geocode of precision p in 1..=32       *)
(* returns a geocode of precision p whose moved axis index is the old      *)
(* index plus one (East, North) or minus one (West, South) modulo 2^p, and *)
(* whose other axis index is unchanged.                                    *)
(***************************************************************************)
C5_NeighborStep ==
    (last.op \in {"North", "East", "South", "West"}
        /\ ValidPrecision(last.arg.precision)) =>
        /\ pc = "code"
        /\ g.precision = last.arg.precision
        /\ LET old == deinterleave64(last.arg.bits)
               new == deinterleave64(g.bits)
               axis == IF last.op \in {"East", "West"} THEN 1 ELSE 2
               step == IF last.op \in {"East", "North"}
                       THEN Add(old[axis], {0}, W32).val
                       ELSE Sub(old[axis], {0}, W32).val
           IN /\ new[axis] = {i \in step : i < g.precision}
              /\ new[3 - axis] = old[3 - axis]

(***************************************************************************)
(* C6. Local neighbour inverse: on a geocode of precision p in 1..=32      *)
(* whose longitude index is strictly between 0 and 2^p - 1, East then West *)
(* and West then East both return the geocode itself; the same for North   *)
(* and South when the latitude index is strictly inside.                   *)
(***************************************************************************)
C6_LocalInverse ==
    (pc = "code" /\ ValidPrecision(g.precision)) =>
        /\ Interior(LngIdx(g), g.precision) =>
              /\ Then(Outcome(get_neighbor(g, "East")), "West") = g
              /\ Then(Outcome(get_neighbor(g, "West")), "East") = g
        /\ Interior(LatIdx(g), g.precision) =>
              /\ Then(Outcome(get_neighbor(g, "North")), "South") = g
              /\ Then(Outcome(get_neighbor(g, "South")), "North") = g

\* East and then West have been applied to the encoded geocode, which is
\* strictly inside on the longitude axis, and the geocode in hand is it again.
C6_Witness ==
    /\ pc = "code"
    /\ steps = 2
    /\ last.op = "West"
    /\ g = Encoded
    /\ Interior(LngIdx(g), g.precision)
    /\ last.arg = Code(get_neighbor(g, "East"))
    /\ last.arg /= g

(***************************************************************************)
(* C7. Partition law: the five decodes of a valid geocode and of its four  *)
(* children complete, the two left (bottom) children share the lower part  *)
(* of the parent's longitude (latitude) range and the two right (top)      *)
(* children the upper part, and the parts meet at one point inside the     *)
(* parent's range: no gap, no overlap.                                     *)
(***************************************************************************)
Halves(lo, hi, whole) ==
    /\ lo.start = whole.start
    /\ lo.end = hi.start
    /\ hi.end = whole.end
    /\ FLe(lo.start, lo.end)
    /\ FLe(hi.start, hi.end)

C7_Partition ==
    (pc = "code" /\ ValidCode(g)) =>
        LET P == into_Area(g)
            LB == into_Area(Code(next_leftbottom(g)))
            LT == into_Area(Code(next_lefttop(g)))
            RB == into_Area(Code(next_rightbottom(g)))
            RT == into_Area(Code(next_righttop(g)))
        IN /\ ~(P.ovf \/ LB.ovf \/ LT.ovf \/ RB.ovf \/ RT.ovf)
           /\ LB.lat_range = RB.lat_range
           /\ LT.lat_range = RT.lat_range
           /\ LB.lng_range = LT.lng_range
           /\ RB.lng_range = RT.lng_range
           /\ Halves(LB.lat_range, LT.lat_range, P.lat_range)
           /\ Halves(LB.lng_range, RB.lng_range, P.lng_range)

(***************************************************************************)
(* C8. Child bit layout: a subdivision of a valid geocode with bits b and  *)
(* precision p in 1..=32 returns precision p + 1 and bits (b << 2) | k,    *)
(* k = 0, 1, 2, 3 for left-bottom, left-top, right-bottom, right-top, and  *)
(* the child's bits >> 2 are b again.                                      *)
(***************************************************************************)
Quadrant ==
    [next_leftbottom |-> 0, next_lefttop |-> 1,
     next_rightbottom |-> 2, next_righttop |-> 3]

C8_ChildBits ==
    (last.op \in DOMAIN Quadrant /\ ValidCode(last.arg)) =>
        /\ pc = "code"
        /\ g.precision = last.arg.precision + 1
        /\ g.bits = Shl(last.arg.bits, 2, W64) \cup BitsOf(Quadrant[last.op])
        /\ Shr(g.bits, 2) = last.arg.bits

(***************************************************************************)
(* C9. Boundary rejection: Coord::new fails (InvalidCoordinate, no Coord)  *)
(* exactly when the latitude is outside [-90, 90) or the longitude outside *)
(* [-180, 180), and GeoBits::from fails (InvalidPrecision, no geocode)     *)
(* exactly when the precision is outside 1..=32; otherwise each succeeds.  *)
(***************************************************************************)
C9_BoundaryRejection ==
    /\ last.op = "Coord::new" =>
          IF /\ GeInt(input.latlng[1], -90) /\ LtInt(input.latlng[1], 90)
             /\ GeInt(input.latlng[2], -180) /\ LtInt(input.latlng[2], 180)
          THEN /\ pc = "coord"
               /\ coord = [latitude |-> input.latlng[1],
                           longitude |-> input.latlng[2]]
          ELSE pc = "panic" /\ last.out = "InvalidCoordinate" /\ coord = None
    /\ last.op = "GeoBits::from" =>
          IF input.precision \in 1 .. 32
          THEN pc = "code" /\ g.precision = input.precision
          ELSE pc = "panic" /\ last.out = "InvalidPrecision" /\ g = None

\* Latitude -90 and longitude -180 were accepted, and precision 33 was then
\* rejected.
C9_Witness ==
    /\ last.op = "GeoBits::from"
    /\ coord = [latitude |-> LAT_MIN, longitude |-> LNG_MIN]
    /\ input.precision = 33
    /\ pc = "panic"
    /\ last.out = "InvalidPrecision"

(***************************************************************************)
(* C10. A diagonal get_neighbor on a geocode of precision p in 1..=32,     *)
(* the wrap edges included, returns a geocode, and it is the geocode the   *)
(* two cardinal moves return when applied one after the other, in either   *)
(* order.                                                                  *)
(***************************************************************************)
Diagonals ==
    { <<"NorthEast", "North", "East">>, <<"SouthEast", "South", "East">>,
      <<"SouthWest", "South", "West">>, <<"NorthWest", "North", "West">> }

C10_DiagonalCommutes ==
    (pc = "code" /\ ValidCode(g)) =>
        LET one == [d \in {"North", "East", "South", "West"} |->
                       Outcome(get_neighbor(g, d))]
        IN \A t \in Diagonals :
               LET diagonal == Outcome(get_neighbor(g, t[1]))
               IN /\ diagonal /= Panic
                  /\ diagonal = Then(one[t[2]], t[3])
                  /\ diagonal = Then(one[t[3]], t[2])

====
